---- MODULE Spec2Model ----
(***************************************************************************)
(* Model of the WindowSettings component                                   *)
(* (src/components/settings/WindowSettings.tsx).                           *)
(*                                                                         *)
(* The component is a function of its props (settings, onChange) and one   *)
(* piece of local state (isClearing).  The model covers one mounted        *)
(* instance of the component.  Every event handler runs to completion      *)
(* before the next event is delivered, and the re-render that a handler's  *)
(* state or props update causes is part of the handler's step, so the      *)
(* committed view is recomputed by Render in every action.                 *)
(*                                                                         *)
(* JavaScript values are tagged tuples: <<"undefined">>, <<"null">>,       *)
(* <<"boolean", b>>, <<"string", s>>, <<"Error", m>>, where a string is a  *)
(* sequence of characters.  Calls made to the outside (onChange, toast,    *)
(* settingsApi) by the last step are recorded, in order, in calls.         *)
(***************************************************************************)
EXTENDS Integers, Sequences, FiniteSets, TLC

\* ----------------------------------------------------------------- bounds
MaxPathLen == 1
MaxMsgLen == 2
MaxClears == 2

Alphabet == {"a", "b"}

RECURSIVE StringsUpTo(_)
StringsUpTo(n) ==
  IF n = 0 THEN {<<>>}
  ELSE LET shorter == StringsUpTo(n - 1)
       IN  shorter \cup {Append(s, c) : s \in {t \in shorter : Len(t) = n - 1}, c \in Alphabet}

PathTexts == StringsUpTo(MaxPathLen)
Messages == StringsUpTo(MaxMsgLen)

\* ------------------------------------------------------ JavaScript values
Undefined == <<"undefined">>
Null == <<"null">>
Bool(b) == <<"boolean", b>>
Str(s) == <<"string", s>>
Err(m) == <<"Error", m>>

\* JavaScript truthiness: !!v
Truthy(v) ==
  CASE v[1] = "undefined" -> FALSE
    [] v[1] = "null"      -> FALSE
    [] v[1] = "boolean"   -> v[2]
    [] v[1] = "string"    -> v[2] # <<>>
    [] OTHER              -> TRUE

\* a || b
Or(a, b) == IF Truthy(a) THEN a ELSE b

\* a ?? b
Coalesce(a, b) == IF a[1] \in {"undefined", "null"} THEN b ELSE a

\* error?.message : the message property of a rejection value
Message(error) == IF error[1] = "Error" THEN Str(error[2]) ELSE Undefined

\* String(error)
StringOf(error) ==
  CASE error[1] = "undefined" -> Str(<<"undefined">>)
    [] error[1] = "null"      -> Str(<<"null">>)
    [] error[1] = "string"    -> error
    [] error[1] = "Error"     -> Str(IF error[2] = <<>> THEN <<"Error">>
                                      ELSE <<"Error", ": ">> \o error[2])
    [] OTHER                  -> Str(<<"[object Object]">>)

\* ------------------------------------------------------- settings record
LaunchOnStartup == "launchOnStartup"
SilentStartup == "silentStartup"
EnableClaudePluginIntegration == "enableClaudePluginIntegration"
EnableVscodeClaudeSync == "enableVscodeClaudeSync"
SkipClaudeOnboarding == "skipClaudeOnboarding"
MinimizeToTrayOnClose == "minimizeToTrayOnClose"
VscodeSettingsPath == "vscodeSettingsPath"

Flags == {LaunchOnStartup, SilentStartup, EnableClaudePluginIntegration,
          EnableVscodeClaudeSync, SkipClaudeOnboarding, MinimizeToTrayOnClose}
Keys == Flags \cup {VscodeSettingsPath}

VARIABLES
  settings,    \* props.settings : the record owned by the parent
  isClearing,  \* useState(false)
  view,        \* the committed render output
  pending,     \* number of clearVscodeClaudeConfig() promises not yet settled
  event,       \* the event delivered to the component by the last step
  calls,       \* calls made to collaborators by the last step, in order
  nStarted,    \* clearVscodeClaudeConfig() calls made so far
  nSuccess,    \* toast.success calls made so far
  nError       \* toast.error calls made so far

vars == <<settings, isClearing, view, pending, event, calls, nStarted, nSuccess, nError>>

\* ------------------------------------------------------------ translation
\* defaultValue of settings.clearVscodeClaudeConfigSuccess (one literal token)
ClearSuccessDefault == <<"VS Code Claude plugin config cleared">>

\* defaultValue of settings.clearVscodeClaudeConfigFailed: literal, then {{error}}
ClearFailedDefault == <<"clear failed: ", "{{error}}">>

RECURSIVE Interpolate(_, _)
Interpolate(template, error) ==
  IF template = <<>> THEN <<>>
  ELSE (IF Head(template) = "{{error}}" THEN error ELSE <<Head(template)>>)
         \o Interpolate(Tail(template), error)

\* t(key, {defaultValue, error}) : the text shown for the key
Translate(defaultValue, error) == Interpolate(defaultValue, error)

\* the text of the failure notification for a rejection value
ErrorText(error) == Coalesce(Message(error), StringOf(error))[2]

\* variant: the error parameter is not handed to t()
FailedTextNoParam(error) == ClearFailedDefault

FailedText(error) == Translate(ClearFailedDefault, ErrorText(error))

SuccessText == Translate(ClearSuccessDefault, <<>>)

\* ------------------------------------------------------------------ calls
OnChangeCall(key, value) == <<"onChange", key, value>>
ToastSuccess(text) == <<"toast.success", text>>
ToastError(text) == <<"toast.error", text>>
ClearConfigCall == <<"clearVscodeClaudeConfig">>

\* rejection values of settingsApi.clearVscodeClaudeConfig()
Errors == {Err(m) : m \in Messages} \cup {Str(m) : m \in Messages} \cup {Undefined, Null}

\* ----------------------------------------------------------------- render
\* the checked prop of the toggle row of flag f
Checked(s, f) ==
  IF f = MinimizeToTrayOnClose THEN s[f] = Bool(TRUE) ELSE Truthy(s[f])

\* variant: the clear button without its disabled prop
RenderNeverDisabled(s, c) ==
  LET panel == Truthy(s[EnableVscodeClaudeSync])
  IN  [checked  |-> [f \in Flags |-> Checked(s, f)],
       panel    |-> panel,
       input    |-> IF panel THEN Coalesce(s[VscodeSettingsPath], Str(<<>>))[2] ELSE <<>>,
       disabled |-> FALSE]

\* variant: the sub-panel guarded by the plugin-integration flag
RenderPanelOnPluginFlag(s, c) ==
  LET panel == Truthy(s[EnableClaudePluginIntegration])
  IN  [checked  |-> [f \in Flags |-> Checked(s, f)],
       panel    |-> panel,
       input    |-> IF panel THEN Coalesce(s[VscodeSettingsPath], Str(<<>>))[2] ELSE <<>>,
       disabled |-> panel /\ c]

\* the JSX returned for props s and state c
Render(s, c) ==
  LET panel == Truthy(s[EnableVscodeClaudeSync])
  IN  [checked  |-> [f \in Flags |-> Checked(s, f)],
       panel    |-> panel,
       input    |-> IF panel THEN Coalesce(s[VscodeSettingsPath], Str(<<>>))[2] ELSE <<>>,
       disabled |-> panel /\ c]

\* ----------------------------------------------------------------- parent
\* the parent's handling of onChange(updates): merge the partial update
ApplyUpdate(s, key, value) == [s EXCEPT ![key] = value]

\* the value a toggle row passes to onCheckedChange on a user interaction
ToggleRowValue(checked) == Bool(~checked)

FlagValues(f) ==
  IF f = MinimizeToTrayOnClose THEN {Bool(TRUE), Bool(FALSE)}
  ELSE {Undefined, Bool(TRUE), Bool(FALSE)}

PathValues == {Undefined} \cup {Str(p) : p \in PathTexts}

SettingsRecords ==
  {s \in [Keys -> UNION {FlagValues(f) : f \in Flags} \cup PathValues] :
     /\ \A f \in Flags : s[f] \in FlagValues(f)
     /\ s[VscodeSettingsPath] \in PathValues}

Init ==
  /\ settings \in SettingsRecords
  /\ isClearing = FALSE
  /\ view = Render(settings, isClearing)
  /\ pending = 0
  /\ event = <<"mount">>
  /\ calls = <<>>
  /\ nStarted = 0
  /\ nSuccess = 0
  /\ nError = 0

\* ----------------------------------------------------------------- events
ToggleEvent(f) == <<"toggle", f>>
InputEvent(text) == <<"input", text>>
ClickEvent == <<"click">>
ResolveEvent == <<"resolve">>
RejectEvent(error) == <<"reject", error>>

\* --------------------------------------------------------------- handlers
\* variant: isClearing kept in the sub-panel, lost when the panel is toggled
OnChangeRemountsPanel(key, value) ==
  /\ settings' = ApplyUpdate(settings, key, value)
  /\ calls' = <<OnChangeCall(key, value)>>
  /\ isClearing' = IF key = EnableVscodeClaudeSync THEN FALSE ELSE isClearing
  /\ UNCHANGED <<pending, nStarted, nSuccess, nError>>
  /\ view' = Render(settings', isClearing')

\* onChange(updates) with updates = {key: value}; the parent merges the
\* update and the component is rendered again with the new record
OnChange(key, value) ==
  /\ settings' = ApplyUpdate(settings, key, value)
  /\ calls' = <<OnChangeCall(key, value)>>
  /\ UNCHANGED <<isClearing, pending, nStarted, nSuccess, nError>>
  /\ view' = Render(settings', isClearing')

ToggleLaunchOnStartup ==
  /\ event' = ToggleEvent(LaunchOnStartup)
  /\ OnChange(LaunchOnStartup, ToggleRowValue(view.checked[LaunchOnStartup]))

ToggleSilentStartup ==
  /\ event' = ToggleEvent(SilentStartup)
  /\ OnChange(SilentStartup, ToggleRowValue(view.checked[SilentStartup]))

\* variant: the plugin-integration row updating the sync flag
ToggleEnableClaudePluginIntegrationSwapped ==
  /\ event' = ToggleEvent(EnableClaudePluginIntegration)
  /\ OnChange(EnableVscodeClaudeSync,
              ToggleRowValue(view.checked[EnableClaudePluginIntegration]))

ToggleEnableClaudePluginIntegration ==
  /\ event' = ToggleEvent(EnableClaudePluginIntegration)
  /\ OnChange(EnableClaudePluginIntegration,
              ToggleRowValue(view.checked[EnableClaudePluginIntegration]))

ToggleEnableVscodeClaudeSync ==
  /\ event' = ToggleEvent(EnableVscodeClaudeSync)
  /\ OnChange(EnableVscodeClaudeSync,
              ToggleRowValue(view.checked[EnableVscodeClaudeSync]))

ToggleSkipClaudeOnboarding ==
  /\ event' = ToggleEvent(SkipClaudeOnboarding)
  /\ OnChange(SkipClaudeOnboarding,
              ToggleRowValue(view.checked[SkipClaudeOnboarding]))

ToggleMinimizeToTrayOnClose ==
  /\ event' = ToggleEvent(MinimizeToTrayOnClose)
  /\ OnChange(MinimizeToTrayOnClose,
              ToggleRowValue(view.checked[MinimizeToTrayOnClose]))

\* variant: e.target.value ?? undefined
PathUpdateValueKeepEmpty(text) == Coalesce(Str(text), Undefined)

\* e.target.value || undefined
PathUpdateValue(text) == Or(Str(text), Undefined)

\* a change event of the path field: the field exists only in the sub-panel
\* and a change event carries a text different from the one displayed
ChangePath(text) ==
  /\ view.panel
  /\ text # view.input
  /\ event' = InputEvent(text)
  /\ OnChange(VscodeSettingsPath, PathUpdateValue(text))

\* variant: the operation started without setIsClearing(true)
StartClearNoFlag ==
  /\ nStarted < MaxClears
  /\ pending' = pending + 1
  /\ nStarted' = nStarted + 1
  /\ calls' = <<ClearConfigCall>>
  /\ UNCHANGED <<settings, isClearing, nSuccess, nError>>
  /\ view' = Render(settings', isClearing')

\* handleClearVscodeConfig up to its await
StartClear ==
  /\ nStarted < MaxClears
  /\ isClearing' = TRUE
  /\ pending' = pending + 1
  /\ nStarted' = nStarted + 1
  /\ calls' = <<ClearConfigCall>>
  /\ UNCHANGED <<settings, nSuccess, nError>>
  /\ view' = Render(settings', isClearing')

\* a click on the clear button: a disabled button delivers no click
ClickClear ==
  /\ view.panel
  /\ event' = ClickEvent
  /\ IF view.disabled
       THEN /\ calls' = <<>>
            /\ UNCHANGED <<settings, isClearing, view, pending, nStarted, nSuccess, nError>>
       ELSE StartClear

\* variant: setIsClearing(false) only on the catch path
ClearResolvedNoReset ==
  /\ pending > 0
  /\ event' = ResolveEvent
  /\ pending' = pending - 1
  /\ calls' = <<ToastSuccess(SuccessText)>>
  /\ nSuccess' = nSuccess + 1
  /\ UNCHANGED <<settings, isClearing, nStarted, nError>>
  /\ view' = Render(settings', isClearing')

\* variant: the success path also switches enableVscodeClaudeSync off locally
ClearResolvedTurnsSyncOff ==
  /\ pending > 0
  /\ event' = ResolveEvent
  /\ pending' = pending - 1
  /\ settings' = ApplyUpdate(settings, EnableVscodeClaudeSync, Bool(FALSE))
  /\ calls' = <<ToastSuccess(SuccessText)>>
  /\ nSuccess' = nSuccess + 1
  /\ isClearing' = FALSE
  /\ UNCHANGED <<nStarted, nError>>
  /\ view' = Render(settings', isClearing')

\* handleClearVscodeConfig after the await returned: try body, then finally
ClearResolved ==
  /\ pending > 0
  /\ event' = ResolveEvent
  /\ pending' = pending - 1
  /\ calls' = <<ToastSuccess(SuccessText)>>
  /\ nSuccess' = nSuccess + 1
  /\ isClearing' = FALSE
  /\ UNCHANGED <<settings, nStarted, nError>>
  /\ view' = Render(settings', isClearing')

\* variant: the catch path without the finally block
ClearRejectedNoFinally(error) ==
  /\ pending > 0
  /\ event' = RejectEvent(error)
  /\ pending' = pending - 1
  /\ calls' = <<ToastError(FailedText(error))>>
  /\ nError' = nError + 1
  /\ UNCHANGED <<settings, isClearing, nStarted, nSuccess>>
  /\ view' = Render(settings', isClearing')

\* handleClearVscodeConfig after the await threw: catch, then finally
ClearRejected(error) ==
  /\ pending > 0
  /\ event' = RejectEvent(error)
  /\ pending' = pending - 1
  /\ calls' = <<ToastError(FailedText(error))>>
  /\ nError' = nError + 1
  /\ isClearing' = FALSE
  /\ UNCHANGED <<settings, nStarted, nSuccess>>
  /\ view' = Render(settings', isClearing')

Next ==
  \/ ToggleLaunchOnStartup
  \/ ToggleSilentStartup
  \/ ToggleEnableClaudePluginIntegration
  \/ ToggleEnableVscodeClaudeSync
  \/ ToggleSkipClaudeOnboarding
  \/ ToggleMinimizeToTrayOnClose
  \/ \E text \in PathTexts : ChangePath(text)
  \/ ClickClear
  \/ ClearResolved
  \/ \E error \in Errors : ClearRejected(error)

Spec == Init /\ [][Next]_vars

\* the external operation runs to completion or rejection
LiveSpec == Spec /\ WF_vars(ClearResolved \/ \E error \in Errors : ClearRejected(error))

\* text contains m as a contiguous run of characters
Contains(text, m) ==
  \E i \in 0..(Len(text) - Len(m)) : SubSeq(text, i + 1, i + Len(m)) = m

IsToast(call) == call[1] \in {"toast.success", "toast.error"}

IsOnChange(call) == call[1] = "onChange"

TypeOK ==
  /\ settings \in SettingsRecords
  /\ isClearing \in BOOLEAN
  /\ pending \in 0..MaxClears
  /\ nStarted \in 0..MaxClears

\* ------------------------------------------------------------------ claims

\* C1: at most one clearVscodeClaudeConfig operation is in flight in every
\* reachable state, and a click on the clear button while an operation is
\* pending changes nothing and makes no call.
C1_AtMostOneInFlight ==
  /\ [](pending <= 1)
  /\ [][(event' = ClickEvent /\ pending > 0) =>
          /\ calls' = <<>>
          /\ UNCHANGED <<settings, isClearing, view, pending, nStarted, nSuccess, nError>>]_vars

C1_Witness == pending = 1 /\ event = ClickEvent /\ calls = <<>>

\* C2: an interaction with the toggle of flag f calls onChange exactly once,
\* with the single key f and the negation of the flag's previous value.
C2_ToggleCallsOnChangeOnce ==
  [][\A f \in Flags :
       event' = ToggleEvent(f) =>
         calls' = <<OnChangeCall(f, Bool(~Truthy(settings[f])))>>]_vars

C2_Witness ==
  \E f \in Flags \ {EnableVscodeClaudeSync} :
    /\ event = ToggleEvent(f)
    /\ calls = <<OnChangeCall(f, Bool(FALSE))>>
    /\ settings[f] = Bool(FALSE)

C4_SuccessNotifiedOnce ==
  [][event' = ResolveEvent =>
       /\ Len(calls') = 1
       /\ calls'[1][1] = "toast.success"
       /\ nSuccess' = nSuccess + 1
       /\ nError' = nError
       /\ ~isClearing'
       /\ ~view'.disabled]_vars

C4_Witness ==
  /\ event = ResolveEvent
  /\ calls = <<ToastSuccess(SuccessText)>>
  /\ view.panel /\ ~view.disabled

\* C5: a change of the path field to the text s calls onChange once with the
\* single key vscodeSettingsPath, whose value is undefined when s is empty
\* and the string s otherwise.
C5_PathChange ==
  [][\A text \in PathTexts :
       event' = InputEvent(text) =>
         calls' = <<OnChangeCall(VscodeSettingsPath,
                                 IF text = <<>> THEN Undefined ELSE Str(text))>>]_vars

C5_Witness ==
  /\ event = InputEvent(<<>>)
  /\ calls = <<OnChangeCall(VscodeSettingsPath, Undefined)>>
  /\ settings[VscodeSettingsPath] = Undefined

\* C6: the sub-panel is rendered exactly when enableVscodeClaudeSync is true
\* in the settings record, and a path change or a click on the clear button
\* happens only while enableVscodeClaudeSync is true.
C6_PanelIffSyncEnabled ==
  /\ [](view.panel <=> settings[EnableVscodeClaudeSync] = Bool(TRUE))
  /\ [][event'[1] \in {"input", "click"} =>
          settings[EnableVscodeClaudeSync] = Bool(TRUE)]_vars

C6_Witness ==
  /\ event = ToggleEvent(EnableVscodeClaudeSync)
  /\ settings[EnableVscodeClaudeSync] = Bool(FALSE)
  /\ ~view.panel

\* C7: provided the external operation eventually completes or rejects,
\* every state in which isClearing is true is followed by a state in which
\* it is false.
C7_ClearingEventuallyReset == isClearing ~> ~isClearing

C7_Witness == ~isClearing /\ nSuccess >= 1 /\ nError >= 1

\* C8: the settings record changes only in a step that calls onChange, and a
\* click on the clear button, a completion and a rejection neither call
\* onChange nor change the record.
C8_SettingsChangeOnlyViaOnChange ==
  [][/\ settings' # settings => (Len(calls') = 1 /\ IsOnChange(calls'[1]))
     /\ event'[1] \in {"click", "resolve", "reject"} =>
          /\ settings' = settings
          /\ \A i \in 1..Len(calls') : ~IsOnChange(calls'[i])]_vars

C8_Witness ==
  /\ event[1] = "reject"
  /\ settings[EnableVscodeClaudeSync] = Bool(TRUE)
  /\ nStarted = 1

\* C9: isClearing is true exactly when one operation has been started and
\* has not settled, it is false whenever none is pending, and the rendered
\* clear button is disabled exactly when isClearing is true.
C9_FlagIffPending ==
  /\ isClearing <=> pending = 1
  /\ pending = 0 => ~isClearing
  /\ view.panel => (view.disabled <=> isClearing)

C9_Witness == isClearing /\ pending = 1 /\ view.panel /\ view.disabled

\* C10: an operation that settles while the sub-panel is hidden still makes
\* exactly one toast call and resets isClearing; toggling enableVscodeClaudeSync
\* leaves isClearing and the pending operation alone; and whenever the
\* sub-panel is shown while an operation is pending the button is disabled.
C10_HideShowWhilePending ==
  /\ [](view.panel /\ pending > 0 => view.disabled)
  /\ [](nSuccess + nError + pending = nStarted)
  /\ [][/\ (~view.panel /\ event'[1] \in {"resolve", "reject"}) =>
            (/\ Len(calls') = 1
             /\ IsToast(calls'[1])
             /\ ~isClearing'
             /\ pending' = pending - 1)
        /\ event' = ToggleEvent(EnableVscodeClaudeSync) =>
            (/\ isClearing' = isClearing
             /\ pending' = pending)]_vars

C10_Witness ==
  /\ event = ToggleEvent(EnableVscodeClaudeSync)
  /\ pending = 1
  /\ view.panel /\ view.disabled

====
